---------------------------- MODULE Spec2Model ----------------------------
(***************************************************************************)
(* Model of orlop's gRPC client bootstrap, ConnectContext, and of the      *)
(* per-call token provider it installs (the tokenProvider closure of       *)
(* SharedContextCredentials).                                              *)
(*                                                                         *)
(* One bootstrap call is followed from entry to return.  The collaborators *)
(* it drives (NewClientTLSConfig, LoadKey, grpc.DialContext, the caller's  *)
(* context) are the environment: every answer they can give is a           *)
(* nondeterministic choice, and every call made to them is logged with the *)
(* arguments it received.                                                  *)
(***************************************************************************)
EXTENDS Integers, Sequences, FiniteSets, TLC

VARIABLES
    cfg,        \* the HasClientConfig value, read-only
    dialStub,   \* how the transport behaves when asked to connect
    phase,      \* position of the bootstrap call
    ctx,        \* the local variable ctx of ConnectContext
    ctxDone,    \* "no", "canceled" or "deadline": state of ctx.Done()
    opts,       \* the local variable opts of ConnectContext
    tlsLog,     \* calls made to NewClientTLSConfig: arguments and answer
    dialLog,    \* calls made to grpc.DialContext, with their arguments
    dialRet,    \* what grpc.DialContext returned
    result,     \* what ConnectContext returned
    store,      \* what the secret source holds for the token handle now
    pc,         \* position of each token fetch
    looked,     \* what LoadKey returned to each token fetch
    ret,        \* the string each token fetch returned
    keyCalls,   \* calls of LoadKey(.., "secret") by the bootstrap (0) and by
                \* the current fetch of each fetcher
    fresh       \* fetch f started after the last change of the store

bootVars == <<phase, ctx, opts, tlsLog, dialLog, dialRet, result>>
envVars == <<cfg, dialStub>>
fetchVars == <<pc, looked, ret, keyCalls, fresh>>
vars == <<cfg, dialStub, phase, ctx, ctxDone, opts, tlsLog, dialLog, dialRet,
          result, store, pc, looked, ret, keyCalls, fresh>>

(***************************************************************************)
(* Bounds of the model.                                                    *)
(***************************************************************************)
NumFetch == 2

Fetchers == 1..NumFetch

(***************************************************************************)
(* Values.  An error is the sequence of its messages, outermost first; the *)
(* nil error is the empty sequence.  A Go string and a byte slice are      *)
(* sequences of bytes; a nil slice is told apart from an empty one.        *)
(***************************************************************************)
Nil == <<>>
NilConn == "nil"
NilBytes == [nil |-> TRUE, bytes |-> <<>>]
Bytes(b) == [nil |-> FALSE, bytes |-> b]

\* version.Name and version.Version
Name == "orlop"
Version == "0.0.0"

\* errors.New
New(msg) == <<msg>>

\* errors.Wrap
Wrap(err, msg) == <<msg>> \o err

\* string(s) of a byte slice: the bytes, and "" for a nil slice
String(s) == IF s.nil THEN <<>> ELSE s.bytes

Terminal == {"Connected", "Failed"}

Rank(p) ==
    CASE p = "Idle" -> 0
      [] p = "Validating" -> 1
      [] p = "ResolvingSecurity" -> 2
      [] p = "BuildingOptions" -> 3
      [] p = "Dialing" -> 4
      [] p = "Connected" -> 5
      [] p = "Failed" -> 5

(***************************************************************************)
(* Contexts.  A context is the list of spans started on it and the list of *)
(* timeouts applied to it; the caller's context carries neither.           *)
(***************************************************************************)
CallerCtx == [spans |-> <<>>, timeouts |-> <<>>]

\* tracer.Start(ctx, name)
TracerStart(c, name) == [c EXCEPT !.spans = Append(@, name)]

\* context.WithTimeout(ctx, d)
WithTimeout(c, d) == [c EXCEPT !.timeouts = Append(@, d)]

HasDeadline(c) == Len(c.timeouts) > 0

\* ctx.Err() once the context is done
CtxErr(done) ==
    IF done = "deadline" THEN New("context deadline exceeded")
    ELSE New("context canceled")

(***************************************************************************)
(* Dial options.  Every option is a record [name, arg].                    *)
(***************************************************************************)
Opt(n, a) == [name |-> n, arg |-> a]

Names(os) == [i \in DOMAIN os |-> os[i].name]

Count(os, n) == Cardinality({i \in DOMAIN os : os[i].name = n})

Has(os, n) == Count(os, n) > 0

ArgOf(os, n) == os[CHOOSE i \in DOMAIN os : os[i].name = n].arg


(***************************************************************************)
(* ConnectContext, lines 56-66: the transport security option, from the    *)
(* answer r = [t, err] of NewClientTLSConfig when TLS is enabled.          *)
(***************************************************************************)
\* credentials.NewTLS(t)
NewTLS(t) == [protocol |-> "tls", config |-> t]

\* variant of TLSConfigError: the resolver's error passed on without context
TLSConfigErrorUnwrapped(r) == r.err

\* lines 58-61: the error returned when the resolver failed
TLSConfigError(r) == Wrap(r.err, "client: failed to get client TLS config")

\* variant of SecurityOption: the two branches exchanged
SecurityOptionSwapped(c, r) ==
    IF ~c.tls.enabled
    THEN Opt("TransportCredentials", NewTLS(r.t))
    ELSE Opt("Insecure", Nil)

\* lines 63 and 65: the option appended
SecurityOption(c, r) ==
    IF c.tls.enabled
    THEN Opt("TransportCredentials", NewTLS(r.t))
    ELSE Opt("Insecure", Nil)

(***************************************************************************)
(* ConnectContext, lines 68-87: the per-call credentials.                  *)
(***************************************************************************)
\* variant of IsShared: only the id decides
IsSharedByIDOnly(shared) == Len(shared.id) > 0

\* line 69
IsShared(shared) ==
    Len(shared.id) > 0 \/ Len(shared.file) > 0 \/ Len(shared.secret) > 0

\* lines 70-86
PerRPCCredentials(c) ==
    IF IsShared(c.token.shared)
    THEN Opt("PerRPCCredentials",
             [kind |-> "SharedContextCredentials", handle |-> c.token.shared])
    ELSE Opt("PerRPCCredentials",
             [kind |-> "ContextCredentials", handle |-> c.token.shared])

(***************************************************************************)
(* ConnectContext, lines 89-121: the tuning options and the block flag.    *)
(***************************************************************************)
WriteBufferSize(c) ==
    IF c.writeBufferSize > 0
    THEN <<Opt("WriteBufferSize", c.writeBufferSize)>> ELSE <<>>

\* variant of ReadBufferSize: the value of the write buffer is passed
ReadBufferSizeOfWrite(c) ==
    IF c.readBufferSize > 0
    THEN <<Opt("ReadBufferSize", c.writeBufferSize)>> ELSE <<>>

ReadBufferSize(c) ==
    IF c.readBufferSize > 0
    THEN <<Opt("ReadBufferSize", c.readBufferSize)>> ELSE <<>>

InitialWindowSize(c) ==
    IF c.initialWindowSize > 0
    THEN <<Opt("InitialWindowSize", c.initialWindowSize)>> ELSE <<>>

InitialConnWindowSize(c) ==
    IF c.initialConnWindowSize > 0
    THEN <<Opt("InitialConnWindowSize", c.initialConnWindowSize)>> ELSE <<>>

\* grpc.WithDefaultCallOptions(grpc.MaxCallRecvMsgSize(n))
MaxCallRecvMsgSize(c) ==
    IF c.maxCallRecvMsgSize > 0
    THEN <<Opt("DefaultCallOptions:MaxCallRecvMsgSize", c.maxCallRecvMsgSize)>>
    ELSE <<>>

\* grpc.WithDefaultCallOptions(grpc.MaxCallSendMsgSize(n))
MaxCallSendMsgSize(c) ==
    IF c.maxCallSendMsgSize > 0
    THEN <<Opt("DefaultCallOptions:MaxCallSendMsgSize", c.maxCallSendMsgSize)>>
    ELSE <<>>

\* grpc.WithConnectParams(grpc.ConnectParams{MinConnectTimeout: d})
MinConnectTimeout(c) ==
    IF c.minConnectTimeout > 0
    THEN <<Opt("ConnectParams:MinConnectTimeout", c.minConnectTimeout)>>
    ELSE <<>>

TuningOptions(c) ==
    WriteBufferSize(c) \o ReadBufferSize(c) \o InitialWindowSize(c)
        \o InitialConnWindowSize(c) \o MaxCallRecvMsgSize(c)
        \o MaxCallSendMsgSize(c) \o MinConnectTimeout(c)

Block(c) == IF c.block THEN <<Opt("Block", Nil)>> ELSE <<>>

\* variant of DialCtx: the timeout is not applied
DialCtxNoDeadline(c, x) == x

\* lines 123-125: the context handed to the dial
DialCtx(c, x) ==
    IF c.connTimeout > 0 THEN WithTimeout(x, c.connTimeout) ELSE x

\* variant of ResolverCtx: the timeout is applied before the resolver runs
ResolverCtxWithDeadline(c, x) ==
    IF c.connTimeout > 0 THEN WithTimeout(x, c.connTimeout) ELSE x

\* line 57: the context handed to NewClientTLSConfig
ResolverCtx(c, x) == x

\* lines 127-131
UserAgent(c) ==
    IF Len(c.userAgent) > 0 THEN c.userAgent ELSE Name \o "/" \o Version

\* lines 68-131: everything appended after the security option
BuiltOptions(c) ==
    <<PerRPCCredentials(c)>> \o TuningOptions(c) \o Block(c)
        \o <<Opt("UserAgent", UserAgent(c))>>

(***************************************************************************)
(* ConnectContext, lines 146-152: what is returned after the dial, and     *)
(* where the call stands then.                                             *)
(***************************************************************************)
DialOutcome(r) ==
    IF r.err # Nil THEN [conn |-> NilConn, err |-> r.err]
    ELSE [conn |-> r.conn, err |-> Nil]

\* variant of PhaseAfterDial: a failed dial is tried again
PhaseAfterDialRetry(r) == IF r.err # Nil THEN "BuildingOptions" ELSE "Connected"

PhaseAfterDial(r) == IF r.err # Nil THEN "Failed" ELSE "Connected"

(***************************************************************************)
(* The token provider, lines 71-83, and the secret source behind LoadKey.  *)
(* The source either holds bytes for the handle or fails the lookup.       *)
(***************************************************************************)
Secrets == {<<1>>, <<1, 2>>}
StoreStates == [ok : {TRUE}, bytes : Secrets] \cup {[ok |-> FALSE, bytes |-> <<>>]}

\* LoadKey(ctx, shared, vault, "secret") against the source as it is now:
\* the answers it can give.  Beside an error it may hand back no bytes or
\* bytes that are not the secret.
LoadKey(st) ==
    IF st.ok THEN {[s |-> Bytes(st.bytes), err |-> Nil]}
    ELSE {[s |-> b, err |-> New("key: lookup failed")] :
            b \in {NilBytes, Bytes(<<0>>)}}

\* line 75: the source the lookup of a fetch reads
StoreRead == store

\* variant of TokenProvider: the error of the lookup is not looked at
TokenProviderUnchecked(r) == String(r.s)

\* lines 76-82: what the closure returns for the answer r of its lookup
TokenProvider(r) == IF r.err # Nil THEN <<>> ELSE String(r.s)

\* variant of LookupOf: the answer is kept in one variable all fetches share
LookupShared(f) ==
    looked[CHOOSE g \in Fetchers :
             /\ pc[g] \in {"looked", "done"}
             /\ \A h \in Fetchers : pc[h] \in {"looked", "done"} => g <= h]

\* line 75: the lookup answer a fetch goes on with
LookupOf(f) == looked[f]

NoLookup == [s |-> NilBytes, err |-> Nil]

\* the provider installed on the channel handed to the caller
Provider == ArgOf(dialLog[1].opts, "PerRPCCredentials")

(***************************************************************************)
(* Configurations.                                                         *)
(***************************************************************************)
URLs == {"", "svc:443"}
Handles == {"", "k"}
TuneVals == {-1, 0, 1, 2}
Timeouts == {-1, 0, 1}
UserAgents == {"", "ua"}
DialStubs == {"ok", "err", "never"}
TokenSources == [shared : [id : Handles, file : Handles, secret : Handles]]

ConfigsOf(urls, tlss, tokens, tunes, uniform, blocks, timeouts, uas) ==
    { c \in [url : urls, tls : [enabled : tlss], token : tokens,
             writeBufferSize : tunes, readBufferSize : tunes,
             initialWindowSize : tunes, initialConnWindowSize : tunes,
             maxCallRecvMsgSize : tunes, maxCallSendMsgSize : tunes,
             minConnectTimeout : tunes, block : blocks,
             connTimeout : timeouts, userAgent : uas] :
        uniform =>
            /\ c.readBufferSize = c.writeBufferSize
            /\ c.initialWindowSize = c.writeBufferSize
            /\ c.initialConnWindowSize = c.writeBufferSize
            /\ c.maxCallRecvMsgSize = c.writeBufferSize
            /\ c.maxCallSendMsgSize = c.writeBufferSize
            /\ c.minConnectTimeout = c.writeBufferSize }

InitRest ==
    /\ phase = "Idle"
    /\ ctx = CallerCtx
    /\ ctxDone = "no"
    /\ opts = <<>>
    /\ tlsLog = <<>>
    /\ dialLog = <<>>
    /\ dialRet = [conn |-> NilConn, err |-> Nil]
    /\ result = [conn |-> NilConn, err |-> Nil]
    /\ pc = [f \in Fetchers |-> "idle"]
    /\ looked = [f \in Fetchers |-> NoLookup]
    /\ ret = [f \in Fetchers |-> <<>>]
    /\ keyCalls = [f \in Fetchers \cup {0} |-> 0]
    /\ fresh = [f \in Fetchers |-> FALSE]

(***************************************************************************)
(* The bootstrap call, ConnectContext.                                     *)
(***************************************************************************)
\* lines 41-45
Start ==
    /\ phase = "Idle"
    /\ ctx' = TracerStart(ctx, "Connect")
    /\ opts' = <<>>
    /\ phase' = "Validating"
    /\ UNCHANGED <<envVars, ctxDone, tlsLog, dialLog, dialRet, result, store,
                   fetchVars>>

\* variant of URLMissing: the URL is not validated
URLNeverMissing(c) == FALSE

\* line 47
URLMissing(c) == Len(c.url) = 0

\* lines 47-51
ValidateReject ==
    /\ phase = "Validating"
    /\ URLMissing(cfg)
    /\ result' = [conn |-> NilConn, err |-> New("client: url required")]
    /\ phase' = "Failed"
    /\ UNCHANGED <<envVars, ctx, ctxDone, opts, tlsLog, dialLog, dialRet, store,
                   fetchVars>>

\* lines 47, 53-54
ValidateAccept ==
    /\ phase = "Validating"
    /\ ~URLMissing(cfg)
    /\ opts' = opts \o <<Opt("UnaryInterceptor", "otelgrpc"),
                         Opt("StreamInterceptor", "otelgrpc")>>
    /\ phase' = "ResolvingSecurity"
    /\ UNCHANGED <<envVars, ctx, ctxDone, tlsLog, dialLog, dialRet, result,
                   store, fetchVars>>

\* what NewClientTLSConfig can answer
ResolverAnswers ==
    {[t |-> "tlsConfig", err |-> Nil], [t |-> "none", err |-> New("tls: no key")]}

\* lines 56-63, TLS enabled
ResolveTLS ==
    /\ phase = "ResolvingSecurity"
    /\ cfg.tls.enabled
    /\ \E r \in ResolverAnswers :
        /\ tlsLog' = Append(tlsLog, [ctx |-> ResolverCtx(cfg, ctx),
                                     tls |-> cfg.tls, ret |-> r])
        /\ IF r.err # Nil
           THEN /\ result' = [conn |-> NilConn, err |-> TLSConfigError(r)]
                /\ phase' = "Failed"
                /\ opts' = opts
           ELSE /\ opts' = Append(opts, SecurityOption(cfg, r))
                /\ phase' = "BuildingOptions"
                /\ result' = result
    /\ UNCHANGED <<envVars, ctx, ctxDone, dialLog, dialRet, store, fetchVars>>

\* lines 56, 64-66, TLS disabled
ResolveInsecure ==
    /\ phase = "ResolvingSecurity"
    /\ ~cfg.tls.enabled
    /\ opts' = Append(opts, SecurityOption(cfg, [t |-> "none", err |-> Nil]))
    /\ phase' = "BuildingOptions"
    /\ UNCHANGED <<envVars, ctx, ctxDone, tlsLog, dialLog, dialRet, result,
                   store, fetchVars>>

\* lines 68-146: the remaining options, the deadline, and the call of the dial
BuildOptions ==
    /\ phase = "BuildingOptions"
    /\ opts' = opts \o BuiltOptions(cfg)
    /\ ctx' = DialCtx(cfg, ctx)
    /\ dialLog' = Append(dialLog, [ctx |-> ctx', target |-> cfg.url,
                                   opts |-> opts'])
    /\ phase' = "Dialing"
    /\ UNCHANGED <<envVars, ctxDone, tlsLog, dialRet, result, store, fetchVars>>

\* lines 146-152: grpc.DialContext returns r and ConnectContext returns
DialReturn(r) ==
    /\ dialRet' = r
    /\ result' = DialOutcome(r)
    /\ phase' = PhaseAfterDial(r)
    /\ UNCHANGED <<envVars, ctx, ctxDone, opts, tlsLog, dialLog, store,
                   fetchVars>>

Blocking == Has(dialLog[Len(dialLog)].opts, "Block")

\* the dial completes: the transport connected, or the dial does not wait
DialSucceed ==
    /\ phase = "Dialing"
    /\ ctxDone = "no"
    /\ dialStub = "ok" \/ (dialStub = "never" /\ ~Blocking)
    /\ DialReturn([conn |-> "conn", err |-> Nil])

\* the dial fails with the transport's own error
DialFail ==
    /\ phase = "Dialing"
    /\ ctxDone = "no"
    /\ dialStub = "err"
    /\ DialReturn([conn |-> NilConn, err |-> New("transport: dial failed")])

\* the dial is aborted because its context is done
DialAbort ==
    /\ phase = "Dialing"
    /\ ctxDone # "no"
    /\ DialReturn([conn |-> NilConn, err |-> CtxErr(ctxDone)])

\* the timer of context.WithTimeout fires
DeadlineExpire ==
    /\ phase = "Dialing"
    /\ HasDeadline(dialLog[Len(dialLog)].ctx)
    /\ ctxDone = "no"
    /\ ctxDone' = "deadline"
    /\ UNCHANGED <<envVars, bootVars, store, fetchVars>>

\* the caller cancels the context it passed in
CallerCancel ==
    /\ phase \notin Terminal
    /\ ctxDone = "no"
    /\ ctxDone' = "canceled"
    /\ UNCHANGED <<envVars, bootVars, store, fetchVars>>

(***************************************************************************)
(* Token fetches on the installed provider, and the secret source.         *)
(***************************************************************************)
\* lines 71-73: an outgoing call asks the provider for its token
FetchStart(f) ==
    /\ phase = "Connected"
    /\ Provider.kind = "SharedContextCredentials"
    /\ pc[f] \in {"idle", "done"}
    /\ pc' = [pc EXCEPT ![f] = "started"]
    /\ looked' = [looked EXCEPT ![f] = NoLookup]
    /\ ret' = [ret EXCEPT ![f] = <<>>]
    /\ keyCalls' = [keyCalls EXCEPT ![f] = 0]
    /\ fresh' = [fresh EXCEPT ![f] = TRUE]
    /\ UNCHANGED <<envVars, bootVars, ctxDone, store>>

\* line 75
FetchLookup(f) ==
    /\ pc[f] = "started"
    /\ \E r \in LoadKey(StoreRead) : looked' = [looked EXCEPT ![f] = r]
    /\ keyCalls' = [keyCalls EXCEPT ![f] = @ + 1]
    /\ pc' = [pc EXCEPT ![f] = "looked"]
    /\ UNCHANGED <<envVars, bootVars, ctxDone, store, ret, fresh>>

\* lines 76-82
FetchReturn(f) ==
    /\ pc[f] = "looked"
    /\ ret' = [ret EXCEPT ![f] = TokenProvider(LookupOf(f))]
    /\ pc' = [pc EXCEPT ![f] = "done"]
    /\ UNCHANGED <<envVars, bootVars, ctxDone, store, looked, keyCalls, fresh>>

\* the secret is rotated or revoked in the source
StoreChange ==
    /\ \E st \in StoreStates \ {store} : store' = st
    /\ fresh' = [f \in Fetchers |-> FALSE]
    /\ UNCHANGED <<envVars, bootVars, ctxDone, pc, looked, ret, keyCalls>>

(***************************************************************************)
(* Specifications.                                                         *)
(***************************************************************************)
Contextual == [shared |-> [id |-> "", file |-> "", secret |-> ""]]
ByID == [shared |-> [id |-> "k", file |-> "", secret |-> ""]]
Revoked == [ok |-> FALSE, bytes |-> <<>>]

\* every field varies; the seven tuning fields vary together
Init ==
    /\ cfg \in ConfigsOf(URLs, BOOLEAN, TokenSources, TuneVals, TRUE, BOOLEAN,
                         Timeouts, UserAgents)
    /\ dialStub \in DialStubs
    /\ store = Revoked
    /\ InitRest

\* the seven tuning fields vary independently
InitTuning ==
    /\ cfg \in ConfigsOf(URLs, BOOLEAN, {Contextual}, TuneVals, FALSE, {FALSE},
                         {0}, {""})
    /\ dialStub = "ok"
    /\ store = Revoked
    /\ InitRest

\* the token source and the secret source vary
InitFetch ==
    /\ cfg \in ConfigsOf(URLs, BOOLEAN, {Contextual, ByID}, {0}, TRUE, BOOLEAN,
                         {0, 1}, {""})
    /\ dialStub \in DialStubs
    /\ store \in StoreStates
    /\ InitRest

\* the bootstrap up to the call of the dial
NextBuild ==
    \/ Start
    \/ ValidateReject
    \/ ValidateAccept
    \/ ResolveTLS
    \/ ResolveInsecure
    \/ BuildOptions

\* the bootstrap and its context
Next ==
    \/ NextBuild
    \/ DialSucceed
    \/ DialFail
    \/ DialAbort
    \/ DeadlineExpire
    \/ CallerCancel

\* the bootstrap, the calls made on the channel and the secret source
NextFetch ==
    \/ Next
    \/ \E f \in Fetchers : FetchStart(f)
    \/ \E f \in Fetchers : FetchLookup(f)
    \/ \E f \in Fetchers : FetchReturn(f)
    \/ StoreChange

Spec == Init /\ [][Next]_vars

SpecTuning == InitTuning /\ [][NextBuild]_vars

SpecFetch == InitFetch /\ [][NextFetch]_vars

\* The goroutine running ConnectContext keeps running, the runtime fires the
\* timer of context.WithTimeout, and the transport returns from a dial that
\* completed or whose context is done.  The caller need never cancel.
Fairness ==
    /\ WF_vars(NextBuild)
    /\ WF_vars(DialSucceed)
    /\ WF_vars(DialFail)
    /\ WF_vars(DialAbort)
    /\ WF_vars(DeadlineExpire)

SpecLive == Init /\ [][Next]_vars /\ Fairness

(***************************************************************************)
(* Properties.                                                             *)
(***************************************************************************)
URLRequired == New("client: url required")
AllKeyCalls == {keyCalls[k] : k \in DOMAIN keyCalls}

\* C1: with an empty URL the bootstrap returns the "url required" error and
\* no channel, returns no options, and calls neither the security resolver,
\* nor the secret lookup, nor the dial, whatever the other fields are.
C1_EmptyURLFailsFast ==
    Len(cfg.url) = 0 =>
        /\ tlsLog = <<>>
        /\ dialLog = <<>>
        /\ AllKeyCalls = {0}
        /\ opts = <<>>
        /\ phase \in {"Idle", "Validating", "Failed"}
        /\ phase = "Failed" => result = [conn |-> NilConn, err |-> URLRequired]

C1_Witness ==
    /\ Len(cfg.url) = 0
    /\ phase = "Failed"
    /\ cfg.tls.enabled
    /\ cfg.token.shared.id # ""
    /\ cfg.writeBufferSize > 0

\* C2: with a URL and TLS enabled the security resolver is called exactly
\* once, with the TLS settings of the configuration; when it fails the
\* bootstrap fails with its error wrapped in "failed to get client TLS
\* config" and the dial is never called; no dial ever gets the insecure
\* marker, and a dial gets the TLS credentials made from the resolver's answer.
C2_TLSResolvedOrFailed ==
    (Len(cfg.url) > 0 /\ cfg.tls.enabled) =>
        /\ Len(tlsLog) <= 1
        /\ Rank(phase) > Rank("ResolvingSecurity") => Len(tlsLog) = 1
        /\ \A i \in DOMAIN tlsLog :
            /\ tlsLog[i].tls = cfg.tls
            /\ tlsLog[i].ret.err # Nil =>
                /\ phase = "Failed"
                /\ result.conn = NilConn
                /\ result.err = <<"client: failed to get client TLS config">>
                                    \o tlsLog[i].ret.err
                /\ dialLog = <<>>
        /\ \A i \in DOMAIN dialLog :
            /\ Len(tlsLog) = 1
            /\ tlsLog[1].ret.err = Nil
            /\ ~Has(dialLog[i].opts, "Insecure")
            /\ Count(dialLog[i].opts, "TransportCredentials") = 1
            /\ ArgOf(dialLog[i].opts, "TransportCredentials")
                 = [protocol |-> "tls", config |-> tlsLog[1].ret.t]

C2_Witness ==
    /\ Len(cfg.url) > 0
    /\ cfg.tls.enabled
    /\ phase = "Failed"
    /\ Len(tlsLog) = 1
    /\ tlsLog[1].ret.err # Nil

\* C3: with a URL and TLS disabled the security resolver is never called,
\* and the options handed to the dial hold the insecure marker exactly once
\* and no TLS credentials.
C3_InsecureWithoutResolver ==
    (Len(cfg.url) > 0 /\ ~cfg.tls.enabled) =>
        /\ tlsLog = <<>>
        /\ Rank(phase) > Rank("BuildingOptions") => Len(dialLog) = 1
        /\ \A i \in DOMAIN dialLog :
            /\ Count(dialLog[i].opts, "Insecure") = 1
            /\ ~Has(dialLog[i].opts, "TransportCredentials")

C3_Witness ==
    /\ Len(cfg.url) > 0
    /\ ~cfg.tls.enabled
    /\ phase = "Connected"
    /\ Len(dialLog) = 1

\* C4: the options handed to the dial hold exactly one per-call credential
\* provider; it is the contextual one when id, file and secret of the token
\* source are all empty and the shared-secret one when any of them is not,
\* whatever the other fields are.
C4_ProviderByTokenSource ==
    \A i \in DOMAIN dialLog :
        LET os == dialLog[i].opts
            sh == cfg.token.shared
        IN  /\ Count(os, "PerRPCCredentials") = 1
            /\ (sh.id = "" /\ sh.file = "" /\ sh.secret = "")
                 => ArgOf(os, "PerRPCCredentials").kind = "ContextCredentials"
            /\ (sh.id # "" \/ sh.file # "" \/ sh.secret # "")
                 => ArgOf(os, "PerRPCCredentials").kind
                      = "SharedContextCredentials"

C4_Witness ==
    /\ Len(dialLog) = 1
    /\ cfg.token.shared.id = ""
    /\ cfg.token.shared.file # ""
    /\ cfg.tls.enabled
    /\ ArgOf(dialLog[1].opts, "PerRPCCredentials").kind
         = "SharedContextCredentials"

\* the seven tuning fields and the option each one sets
TuningOption ==
    [writeBufferSize |-> "WriteBufferSize",
     readBufferSize |-> "ReadBufferSize",
     initialWindowSize |-> "InitialWindowSize",
     initialConnWindowSize |-> "InitialConnWindowSize",
     maxCallRecvMsgSize |-> "DefaultCallOptions:MaxCallRecvMsgSize",
     maxCallSendMsgSize |-> "DefaultCallOptions:MaxCallSendMsgSize",
     minConnectTimeout |-> "ConnectParams:MinConnectTimeout"]

\* C5: for each of the seven tuning fields, independently of the others,
\* the options handed to the dial hold its option, once and with exactly the
\* configured value, if and only if the field is > 0; no tuning option
\* carries a value <= 0.
C5_TuningOptInByMagnitude ==
    \A i \in DOMAIN dialLog :
        LET os == dialLog[i].opts
        IN  /\ \A fld \in DOMAIN TuningOption :
                /\ Has(os, TuningOption[fld]) <=> cfg[fld] > 0
                /\ Has(os, TuningOption[fld]) =>
                    /\ Count(os, TuningOption[fld]) = 1
                    /\ ArgOf(os, TuningOption[fld]) = cfg[fld]
            /\ \A k \in DOMAIN os :
                (\E fld \in DOMAIN TuningOption : os[k].name = TuningOption[fld])
                    => os[k].arg > 0

C5_Witness ==
    /\ Len(dialLog) = 1
    /\ cfg.writeBufferSize = 2
    /\ cfg.readBufferSize = 1
    /\ cfg.initialWindowSize = 0
    /\ cfg.maxCallSendMsgSize = -1
    /\ cfg.minConnectTimeout = 2
    /\ Has(dialLog[1].opts, "ReadBufferSize")
    /\ ~Has(dialLog[1].opts, "InitialWindowSize")

\* the errors a bootstrap returns
BootstrapErrors ==
    {URLRequired, New("transport: dial failed"), CtxErr("deadline"),
     CtxErr("canceled")}
        \cup {<<"client: failed to get client TLS config">> \o r.err :
                r \in {a \in ResolverAnswers : a.err # Nil}}

\* C6: the bootstrap performs no lookup of the token secret; lookups happen
\* only inside token fetches, which run on the connected channel; the
\* bootstrap fails only with its own errors, never with one of the secret
\* source; and a token fetch whose lookup failed returns the empty string.
C6_LookupOnlyAtCallTime ==
    /\ keyCalls[0] = 0
    /\ phase # "Connected" =>
        \A f \in Fetchers : pc[f] = "idle" /\ keyCalls[f] = 0
    /\ phase = "Failed" => result.err \in BootstrapErrors
    /\ phase = "Connected" => result.err = Nil
    /\ \A f \in Fetchers :
        (pc[f] = "done" /\ looked[f].err # Nil) => ret[f] = <<>>

C6_Witness ==
    /\ phase = "Connected"
    /\ ~store.ok
    /\ Provider.kind = "SharedContextCredentials"
    /\ \E f \in Fetchers :
        /\ pc[f] = "done"
        /\ fresh[f]
        /\ looked[f].err # Nil
        /\ looked[f].s # NilBytes
        /\ ret[f] = <<>>

\* C7: a dial whose context is done, by the deadline or by the caller, ends
\* the bootstrap in Failed and never in Connected; with a connect timeout
\* > 0 and block-until-ready
\* a dial that never completes ends in Failed with no channel and the
\* error of the context (the deadline's, unless the caller cancelled first).
C7_DialBoundedByContext ==
    /\ (phase = "Dialing" /\ ctxDone # "no") ~> (phase = "Failed")
    /\ (phase = "Dialing" /\ cfg.connTimeout > 0 /\ cfg.block
            /\ dialStub = "never")
         ~> (/\ phase = "Failed"
             /\ result.conn = NilConn
             /\ ctxDone # "no"
             /\ result.err = CtxErr(ctxDone))
    /\ [][(phase = "Dialing" /\ ctxDone # "no") => phase' # "Connected"]_vars

C7_Witness ==
    /\ phase = "Failed"
    /\ cfg.connTimeout > 0
    /\ cfg.block
    /\ dialStub = "never"
    /\ ctxDone = "deadline"
    /\ result = [conn |-> NilConn, err |-> New("context deadline exceeded")]

\* C8: a bootstrap call moves forward only, one phase at a time or straight
\* to Failed; Connected is entered from Dialing only; nothing of the call
\* changes once it is Connected or Failed; the dial is called at most once;
\* Connected returns a channel and no error, Failed an error and no channel,
\* and after a failed dial that error is the dial's own.
C8_SinglePassNoRetry ==
    [][/\ Rank(phase') >= Rank(phase)
       /\ Rank(phase') <= Rank(phase) + 1 \/ phase' = "Failed"
       /\ phase' = "Connected" => phase \in {"Dialing", "Connected"}
       /\ phase \in Terminal => UNCHANGED bootVars
       /\ Len(dialLog') <= 1
       /\ phase' = "Connected" => (result'.conn # NilConn /\ result'.err = Nil)
       /\ phase' = "Failed" => (result'.conn = NilConn /\ result'.err # Nil)
       /\ (phase' = "Failed" /\ dialLog' # <<>>) =>
            (dialRet'.err # Nil /\ result'.err = dialRet'.err)
       /\ dialRet'.err # Nil => phase' = "Failed"]_vars

C8_Witness ==
    /\ phase = "Failed"
    /\ Len(dialLog) = 1
    /\ ctxDone = "no"
    /\ result.err = New("transport: dial failed")

\* C9 as stated: with a connect timeout > 0 the security resolver and the
\* dial both receive a context carrying that deadline; otherwise both
\* receive the caller's context.
C9_DeadlineOnEveryCall ==
    /\ \A i \in DOMAIN tlsLog :
        tlsLog[i].ctx.timeouts
            = IF cfg.connTimeout > 0 THEN <<cfg.connTimeout>> ELSE <<>>
    /\ \A i \in DOMAIN dialLog :
        dialLog[i].ctx.timeouts
            = IF cfg.connTimeout > 0 THEN <<cfg.connTimeout>> ELSE <<>>

\* C9, amended: the deadline is applied after the options are built, right
\* before the dial.  The security resolver always receives the caller's
\* context (with the span of the call) and no deadline; the dial receives
\* that context with the deadline when the timeout is > 0 and without any
\* when it is <= 0.
C9_DeadlineOnDialOnly ==
    /\ \A i \in DOMAIN tlsLog :
        tlsLog[i].ctx = [spans |-> <<"Connect">>, timeouts |-> <<>>]
    /\ \A i \in DOMAIN dialLog :
        /\ dialLog[i].ctx.spans = <<"Connect">>
        /\ dialLog[i].ctx.timeouts
            = IF cfg.connTimeout > 0 THEN <<cfg.connTimeout>> ELSE <<>>

C9_Witness ==
    /\ cfg.connTimeout > 0
    /\ cfg.tls.enabled
    /\ Len(tlsLog) = 1
    /\ Len(dialLog) = 1
    /\ HasDeadline(dialLog[1].ctx)
    /\ ~HasDeadline(tlsLog[1].ctx)

\* the token the secret source stands for now
TokenNow == IF store.ok THEN store.bytes ELSE <<>>

\* C10: in every interleaving of token fetches and changes of the secret,
\* each fetch makes exactly one lookup of its own and returns the bytes of
\* that lookup, or the empty string when that lookup failed; a fetch begun
\* after the last rotation or revocation returns what the source holds now.
C10_FetchesIndependent ==
    \A f \in Fetchers :
        /\ pc[f] \in {"idle", "started"} => keyCalls[f] = 0
        /\ pc[f] \in {"looked", "done"} => keyCalls[f] = 1
        /\ pc[f] = "done" =>
            ret[f] = IF looked[f].err # Nil THEN <<>>
                     ELSE IF looked[f].s.nil THEN <<>> ELSE looked[f].s.bytes
        /\ (pc[f] = "done" /\ fresh[f]) => ret[f] = TokenNow
        /\ (pc[f] \in {"looked", "done"} /\ fresh[f]) =>
            looked[f] \in LoadKey(store)

C10_Witness ==
    \E f, g \in Fetchers :
        /\ pc[f] = "done"
        /\ pc[g] = "done"
        /\ looked[f].err # Nil
        /\ ret[f] = <<>>
        /\ fresh[g]
        /\ ret[g] = <<1, 2>>

=============================================================================
